---- MODULE Spec2Model ----
(***************************************************************************)
(* A model of communication/communication.py: MessageBroker, Publisher and *)
(* Subscriber over ZeroMQ PUB / XSUB-XPUB proxy / SUB sockets.             *)
(*                                                                         *)
(* Strings are sequences of Unicode code points; what travels on a socket  *)
(* is the UTF-8 byte sequence of the string (send_string, recv_string and  *)
(* setsockopt_string all use pyzmq's default encoding, utf-8).             *)
(*                                                                         *)
(* The sockets are created with ZeroMQ's defaults, which the source never  *)
(* changes:                                                                *)
(*   - a PUB socket never blocks in send; it drops a frame that matches no *)
(*     subscription it has been told of, or whose pipe is at its high      *)
(*     water mark;                                                         *)
(*   - connect() is asynchronous and the socket reconnects by itself;      *)
(*   - ZMQ_IMMEDIATE is 0, so the pipe of a connecting socket and the      *)
(*     subscriptions recorded for it outlive a lost connection: frames     *)
(*     sent meanwhile queue in the pipe, and what was already handed to    *)
(*     the lost connection is gone;                                        *)
(*   - a SUB socket sends its subscriptions again after every reconnect;   *)
(*   - zmq.proxy copies frames from the XSUB to the XPUB socket, which     *)
(*     hands each frame to every peer with a matching subscription         *)
(*     (byte-prefix test) and drops it for a peer whose pipe is full.      *)
(***************************************************************************)
EXTENDS Integers, Sequences, FiniteSets, TLC

\* ------------------------------------------------------------- bounds
\* Total number of Publisher.send calls explored.
MaxSends == 2
\* High water marks (ZeroMQ's default for both is 1000): of a PUB socket's pipe
\* towards the broker, and of the pipe that ends in a SUB socket.
SndHwm == 1
RcvHwm == 2
\* Number of times a new MessageBroker process replaces a stopped one.
MaxRestarts == 1
\* Longest topic and longest message of the codec specification.
MaxStrLen == 2

\* ------------------------------------------------------------ strings
\* The separator of "{}!{}": the code point of '!'.
Sep == 33

\* 'a', 'b', '!' and the two-byte character e-acute.
Chars == {97, 98, Sep, 233}

Pubs == {"p1", "p2"}
Subs == {"s1", "s2"}

\* The deployments explored, each the topics of the publishers and of the
\* subscribers that exist in it:
\*   publisher "a";            subscribers "a" and "a"   (same topic twice)
\*   publishers "a" and "ab";  subscriber "a"            (a topic starting with the filter)
\*   publishers "a" and "b";   subscriber "b"            (a disjoint topic)
\*   publisher "a";            subscriber "a!b"          (separator in the filter)
\*   publisher "a";            subscriber ""             (the empty filter)
\*   publisher "a";            subscriber "ab"           (a filter longer than the topic)
Deployments ==
  { [topics |-> ("p1" :> <<97>>), filters |-> ("s1" :> <<97>> @@ "s2" :> <<97>>)],
    [topics |-> ("p1" :> <<97>> @@ "p2" :> <<97, 98>>), filters |-> ("s1" :> <<97>>)],
    [topics |-> ("p1" :> <<97>> @@ "p2" :> <<98>>), filters |-> ("s1" :> <<98>>)],
    [topics |-> ("p1" :> <<97>>), filters |-> ("s1" :> <<97, Sep, 98>>)],
    [topics |-> ("p1" :> <<97>>), filters |-> ("s1" :> <<>>)],
    [topics |-> ("p1" :> <<97>>), filters |-> ("s1" :> <<97, 98>>)] }

\* "b": the message publishers send. (With the filter "a!b" it makes the frame
\* "a!b" of topic "a" match.)
Msgs == {<<98>>}

RECURSIVE StrsOfLen(_)
StrsOfLen(n) ==
  IF n = 0 THEN {<<>>}
  ELSE {Append(s, c) : s \in StrsOfLen(n - 1), c \in Chars}

StrsUpTo(n) == UNION {StrsOfLen(k) : k \in 0..n}

\* str.encode("utf-8") of one code point below 2048.
Utf8Char(c) ==
  IF c < 128 THEN <<c>> ELSE <<192 + (c \div 64), 128 + (c % 64)>>

RECURSIVE Utf8Encode(_)
Utf8Encode(s) ==
  IF s = <<>> THEN <<>> ELSE Utf8Char(Head(s)) \o Utf8Encode(Tail(s))

RECURSIVE Utf8Decode(_)
Utf8Decode(b) ==
  IF b = <<>> THEN <<>>
  ELSE IF Head(b) < 128 THEN <<Head(b)>> \o Utf8Decode(Tail(b))
  ELSE <<(Head(b) - 192) * 64 + (b[2] - 128)>> \o Utf8Decode(Tail(Tail(b)))

\* A frame format without the separator between topic and message.
FormatNoSeparator(topic, message) == topic \o message

\* "{}!{}".format(topic, message)
Format(topic, message) == topic \o <<Sep>> \o message

\* A strip offset that forgets the separator (the variant C1 is checked against).
MsgStartNoSeparator(topic) == Len(topic)

\* len(topic) + 1
MsgStart(topic) == Len(topic) + 1

\* Python's str[start:] for start >= 0.
Slice(str, start) == SubSeq(str, start + 1, Len(str))

\* A subscription test that lets every frame through (the variant C2 is checked
\* against).
MatchesEverything(filter, frame) == TRUE

\* A subscription test that wants the whole topic: the filter, then the
\* separator (the variant C3 is checked against).
MatchesWholeTopic(filter, frame) ==
  /\ Len(filter) < Len(frame)
  /\ SubSeq(frame, 1, Len(filter) + 1) = filter \o <<Sep>>

\* ZeroMQ's subscription test: the filter's bytes are a prefix of the frame's.
Matches(filter, frame) ==
  /\ Len(filter) <= Len(frame)
  /\ SubSeq(frame, 1, Len(filter)) = filter

\* -------------------------------------------------------------- state
VARIABLES
  bpc,          \* MessageBroker: "created", "started", "proxying", "failed", "down"
  startResult,  \* what MessageBroker.start() gave its caller: "none", "returned", "raised"
  restarts,     \* how many times a new MessageBroker replaced a stopped one
  publisher,    \* publisher[p]: the fields of each Publisher that exists: [topic]
  pubConn,      \* publishers whose PUB socket is connected to the broker's frontend
  pubKnows,     \* pubKnows[p]: subscribers whose subscription p's PUB socket holds
  pubOut,       \* pubOut[p]: frames queued in p's pipe towards the broker
  subscriber,   \* subscriber[s]: the fields of each Subscriber that exists:
                \* [filter (the SUB socket's subscription), msg_start, handler, args]
  subConn,      \* subscribers connected to the backend, subscription registered
  subIn,        \* subIn[s]: frames queued on s's SUB socket
  spc,          \* Subscriber thread: "created", "receiving", "handling", "dead"
  handled,      \* handled[s]: the handler's invocations, [id, payload, outcome], in order
  sent,         \* history: every send, with the state of the network at that time
  lostFor,      \* history: lostFor[s] = sends the transport dropped on the way to s
  backlog,      \* history: backlog[s] = the sends waiting on s's socket when run()
                \*   began, in socket order (recorded under SpecBuffered only)
  codec         \* the codec specification's state

brokerVars == <<bpc, startResult, restarts>>
pubVars == <<publisher, pubConn, pubKnows, pubOut>>
subVars == <<subscriber, subConn, subIn, spc, handled>>
histVars == <<sent, lostFor, backlog>>
vars == <<brokerVars, pubVars, subVars, histVars, codec>>

\* The filter the transport matches for s: setsockopt_string(zmq.SUBSCRIBE, topic).
FilterBytes(s) == Utf8Encode(subscriber[s].filter)

CodecIdle == [pc |-> "idle", msg |-> <<>>, frame |-> <<>>, out |-> <<>>]

\* Publisher.__init__ and Subscriber.__init__: the fields they set.
NewPublisher(topic) == [topic |-> topic]

NewSubscriber(s, topic) ==
  [filter |-> topic, msg_start |-> MsgStart(topic), handler |-> s, args |-> <<>>]

\* A MessageBroker, the publishers and the subscribers have been constructed;
\* no thread has been started and nothing is connected yet.
InitSystem(topics, filters) ==
  /\ bpc = "created"
  /\ startResult = "none"
  /\ restarts = 0
  /\ publisher = [p \in DOMAIN topics |-> NewPublisher(topics[p])]
  /\ pubConn = {}
  /\ pubKnows = [p \in Pubs |-> {}]
  /\ pubOut = [p \in Pubs |-> <<>>]
  /\ subscriber = [s \in DOMAIN filters |-> NewSubscriber(s, filters[s])]
  /\ subConn = {}
  /\ subIn = [s \in Subs |-> <<>>]
  /\ spc = [s \in Subs |-> "created"]
  /\ handled = [s \in Subs |-> <<>>]
  /\ sent = <<>>
  /\ lostFor = [s \in Subs |-> {}]
  /\ backlog = [s \in Subs |-> <<>>]

Init ==
  /\ \E d \in Deployments : InitSystem(d.topics, d.filters)
  /\ codec = CodecIdle

\* ------------------------------------------------------------- broker
\* threading.Thread.start(): the thread is started and start() returns to its
\* caller; nothing run() does later reaches that caller.
MessageBrokerStart ==
  /\ bpc = "created"
  /\ bpc' = "started"
  /\ startResult' = "returned"
  /\ UNCHANGED <<restarts, pubVars, subVars, histVars, codec>>

\* MessageBroker.run up to zmq.proxy: both binds succeed and the proxy loop is
\* entered, or a bind raises and the exception ends the thread.
MessageBrokerRun(frontendOk, backendOk) ==
  /\ bpc = "started"
  /\ bpc' = IF frontendOk /\ backendOk THEN "proxying" ELSE "failed"
  /\ UNCHANGED <<startResult, restarts, pubVars, subVars, histVars, codec>>

\* A relay that loses the frame's last byte (the variant C10 is checked against).
ForwardedCut(item) == [item EXCEPT !.frame = SubSeq(@, 1, Len(@) - 1)]

\* What zmq.proxy hands to the backend for a frame read from the frontend.
Forwarded(item) == item

\* A relay that hands each frame to one matching peer only, as a load balancer
\* would (the variant C4 is checked against).
ProxyTargetsOne(frame) ==
  LET all == {s \in subConn : Matches(FilterBytes(s), frame)}
  IN IF all = {} THEN {} ELSE {CHOOSE s \in all : TRUE}

\* The peers the XPUB socket sends a frame to.
ProxyTargets(frame) == {s \in subConn : Matches(FilterBytes(s), frame)}

\* A pipe that puts a new frame in front of the waiting ones (the variant C5 is
\* checked against).
EnqueueFront(q, item) == <<item>> \o q

\* A pipe is first in, first out.
Enqueue(q, item) == Append(q, item)

\* One iteration of zmq.proxy for a frame of publisher p.
ProxyForward(p) ==
  /\ bpc = "proxying"
  /\ p \in pubConn
  /\ pubOut[p] # <<>>
  /\ LET item == Forwarded(Head(pubOut[p]))
         to == ProxyTargets(item.frame)
         full == {s \in to : Len(subIn[s]) >= RcvHwm}
     IN /\ pubOut' = [pubOut EXCEPT ![p] = Tail(pubOut[p])]
        /\ subIn' = [s \in Subs |->
                       IF s \in to \ full THEN Enqueue(subIn[s], item) ELSE subIn[s]]
        /\ lostFor' = [s \in Subs |->
                         IF s \in full THEN lostFor[s] \cup {item.id} ELSE lostFor[s]]
  /\ UNCHANGED <<brokerVars, publisher, pubConn, pubKnows,
                 subscriber, subConn, spc, handled, sent, backlog, codec>>

\* The proxy passes a subscription from the backend on to a connected publisher.
PropagateSubscription(p, s) ==
  /\ bpc = "proxying"
  /\ p \in pubConn
  /\ s \in subConn
  /\ s \notin pubKnows[p]
  /\ pubKnows' = [pubKnows EXCEPT ![p] = @ \cup {s}]
  /\ UNCHANGED <<brokerVars, publisher, pubConn, pubOut,
                 subVars, histVars, codec>>

\* The broker's process ends (daemon thread): every connection is lost, and of
\* each publisher's pipe the first lose[p] frames were already handed to the
\* lost connection. A publisher keeps the subscriptions it was told of.
BrokerExit(lose) ==
  /\ bpc \in {"proxying", "failed"}
  /\ \A p \in Pubs : lose[p] <= Len(pubOut[p])
  /\ bpc' = "down"
  /\ pubConn' = {}
  /\ subConn' = {}
  /\ pubOut' = [p \in Pubs |-> SubSeq(pubOut[p], lose[p] + 1, Len(pubOut[p]))]
  /\ lostFor' = [s \in Subs |->
                   lostFor[s] \cup UNION {{pubOut[p][i].id : i \in 1..lose[p]} : p \in Pubs}]
  /\ UNCHANGED <<startResult, restarts, publisher, pubKnows,
                 subscriber, subIn, spc, handled, sent, backlog, codec>>

\* MessageBroker.__init__ in a new process, on the same ports.
MessageBrokerNew ==
  /\ bpc = "down"
  /\ restarts < MaxRestarts
  /\ bpc' = "created"
  /\ startResult' = "none"
  /\ restarts' = restarts + 1
  /\ UNCHANGED <<pubVars, subVars, histVars, codec>>

\* ---------------------------------------------------------- publisher
\* The PUB socket's connection to the frontend is made (connect is lazy, and is
\* made again by the transport after a broker restart).
PublisherConnect(p) ==
  /\ bpc = "proxying"
  /\ p \notin pubConn
  /\ pubConn' = pubConn \cup {p}
  /\ UNCHANGED <<brokerVars, publisher, pubKnows, pubOut,
                 subVars, histVars, codec>>

\* The bytes send_string puts on the wire for "{}!{}".format(topic, message).
Frame(topic, message) == Utf8Encode(Format(topic, message))

\* The PUB socket sends only what matches a subscription it has been told of.
Wanted(p, frame) == \E s \in pubKnows[p] : Matches(FilterBytes(s), frame)

\* What the history records of a send: who sent what, how the call ended,
\* whether the broker was down and whether a subscriber with a matching
\* filter was connected to it at that moment.
SendRecord(p, message, frame) ==
  [pub |-> p, msg |-> message, frame |-> frame, outcome |-> "returned",
   down |-> bpc = "down",
   heard |-> \E s \in subConn : Matches(FilterBytes(s), frame)]

\* socket.send_string on the PUB socket: never blocks, never raises for a missing
\* peer. The frame is queued if it is wanted and the pipe has room; without a
\* connection it is queued as well, or (flushed) was handed to a connection
\* that is already lost. Otherwise it is dropped.
SendString(p, message, frame) ==
  LET id == Len(sent) + 1
      item == [id |-> id, frame |-> frame]
      room == Len(pubOut[p]) < SndHwm
  IN /\ \E flushed \in BOOLEAN :
          /\ flushed => (p \notin pubConn /\ Wanted(p, frame) /\ room)
          /\ pubOut' = IF Wanted(p, frame) /\ room /\ ~flushed
                       THEN [pubOut EXCEPT ![p] = Enqueue(@, item)]
                       ELSE pubOut
          /\ lostFor' = IF Wanted(p, frame) /\ (~room \/ flushed)
                        THEN [s \in Subs |-> lostFor[s] \cup {id}]
                        ELSE lostFor
     /\ sent' = Append(sent, SendRecord(p, message, frame))

\* A send that waits for the connection to the broker (the variant C7 is
\* checked against).
PublisherSendConnected(p, message) ==
  /\ p \in pubConn
  /\ Len(sent) < MaxSends
  /\ SendString(p, message, Frame(publisher[p].topic, message))
  /\ UNCHANGED <<brokerVars, publisher, pubConn, pubKnows, subVars, backlog, codec>>

\* Publisher.send(message)
PublisherSend(p, message) ==
  /\ Len(sent) < MaxSends
  /\ SendString(p, message, Frame(publisher[p].topic, message))
  /\ UNCHANGED <<brokerVars, publisher, pubConn, pubKnows, subVars, backlog, codec>>

\* --------------------------------------------------------- subscriber
\* The SUB socket's connection to the backend is made and its subscription
\* reaches the XPUB socket (again after a broker restart).
SubscriberConnect(s) ==
  /\ bpc = "proxying"
  /\ s \notin subConn
  /\ subConn' = subConn \cup {s}
  /\ UNCHANGED <<brokerVars, pubVars, subscriber, subIn, spc, handled,
                 histVars, codec>>

\* A run() that begins with an empty socket buffer, as if the socket were
\* created and connected by run() and not by the constructor.
StartLoopFresh(s) ==
  /\ spc[s] = "created"
  /\ spc' = [spc EXCEPT ![s] = "receiving"]
  /\ subIn' = [subIn EXCEPT ![s] = <<>>]
  /\ UNCHANGED <<brokerVars, pubVars, subscriber, subConn, handled,
                 sent, lostFor, codec>>

\* run() begins its loop on the socket the constructor made.
StartLoop(s) ==
  /\ spc[s] = "created"
  /\ spc' = [spc EXCEPT ![s] = "receiving"]
  /\ UNCHANGED <<brokerVars, pubVars, subscriber, subConn, subIn, handled,
                 sent, lostFor, codec>>

\* Thread.start() of a Subscriber: run() begins its loop.
SubscriberStart(s) == StartLoop(s) /\ UNCHANGED backlog

\* Thread.start() of a Subscriber, with the history of what was on its socket.
SubscriberStartLogged(s) ==
  /\ StartLoop(s)
  /\ backlog' = [backlog EXCEPT ![s] = [i \in 1..Len(subIn[s]) |-> subIn[s][i].id]]

\* A parser that looks for the separator and not at a fixed offset.
RECURSIVE AfterSeparator(_)
AfterSeparator(str) ==
  IF str = <<>> THEN <<>>
  ELSE IF Head(str) = Sep THEN Tail(str) ELSE AfterSeparator(Tail(str))

PayloadAfterSeparator(frame, msg_start) == AfterSeparator(Utf8Decode(frame))

\* recv_string() and msg_orig[self.msg_start:]
Payload(frame, msg_start) == Slice(Utf8Decode(frame), msg_start)

\* A loop that takes the next frame while the handler is still running.
AtRecvOverlapping(s) == spc[s] \in {"receiving", "handling"}

\* A socket that is read before run() was invoked.
AtRecvUnstarted(s) == spc[s] \in {"created", "receiving"}

\* The thread of s is at recv_string(): run() was invoked and no handler
\* invocation of s is in progress.
AtRecv(s) == spc[s] = "receiving"

\* A loop iteration that moves the strip offset past the frame it consumed.
FieldsAfterDispatchAdvanced(s) ==
  [subscriber[s] EXCEPT !.msg_start = @ + 1]

\* The attributes of s after an iteration of run(): the loop reads
\* self.socket, self.msg_start, self.handler and self.args and assigns none.
FieldsAfterDispatch(s) == subscriber[s]

\* One iteration of Subscriber.run up to the call of the handler.
SubscriberRecv(s) ==
  /\ AtRecv(s)
  /\ subIn[s] # <<>>
  /\ LET item == Head(subIn[s])
         msg == Payload(item.frame, subscriber[s].msg_start)
     IN handled' = [handled EXCEPT ![s] =
                      Append(@, [id |-> item.id, payload |-> msg,
                                 outcome |-> "running"])]
  /\ subIn' = [subIn EXCEPT ![s] = Tail(@)]
  /\ spc' = [spc EXCEPT ![s] = "handling"]
  /\ subscriber' = [subscriber EXCEPT ![s] = FieldsAfterDispatch(s)]
  /\ UNCHANGED <<brokerVars, pubVars, subConn, histVars, codec>>

\* A handler return that leaves the loop.
HandlerReturnEndsLoop(s) ==
  /\ spc[s] = "handling"
  /\ spc' = [spc EXCEPT ![s] = "dead"]
  /\ handled' = [handled EXCEPT ![s][Len(handled[s])].outcome = "returned"]
  /\ UNCHANGED <<brokerVars, pubVars, subscriber, subConn, subIn,
                 histVars, codec>>

\* The handler returns and the loop goes back to recv_string().
HandlerReturn(s) ==
  /\ spc[s] = "handling"
  /\ spc' = [spc EXCEPT ![s] = "receiving"]
  /\ handled' = [handled EXCEPT ![s][Len(handled[s])].outcome = "returned"]
  /\ UNCHANGED <<brokerVars, pubVars, subscriber, subConn, subIn,
                 histVars, codec>>

\* A loop that catches the handler's exception and goes on.
HandlerRaiseCaught(s) ==
  /\ spc[s] = "handling"
  /\ spc' = [spc EXCEPT ![s] = "receiving"]
  /\ handled' = [handled EXCEPT ![s][Len(handled[s])].outcome = "raised"]
  /\ UNCHANGED <<brokerVars, pubVars, subscriber, subConn, subIn,
                 histVars, codec>>

\* The handler raises: run() does not catch it and the thread ends.
HandlerRaise(s) ==
  /\ spc[s] = "handling"
  /\ spc' = [spc EXCEPT ![s] = "dead"]
  /\ handled' = [handled EXCEPT ![s][Len(handled[s])].outcome = "raised"]
  /\ UNCHANGED <<brokerVars, pubVars, subscriber, subConn, subIn,
                 histVars, codec>>

\* ------------------------------------------------------ specification
Next ==
  \/ MessageBrokerStart
  \/ \E frontendOk, backendOk \in BOOLEAN : MessageBrokerRun(frontendOk, backendOk)
  \/ \E p \in DOMAIN publisher : ProxyForward(p)
  \/ \E p \in DOMAIN publisher, s \in DOMAIN subscriber : PropagateSubscription(p, s)
  \/ \E lose \in [Pubs -> 0..SndHwm] : BrokerExit(lose)
  \/ MessageBrokerNew
  \/ \E p \in DOMAIN publisher : PublisherConnect(p)
  \/ \E p \in DOMAIN publisher, m \in Msgs : PublisherSend(p, m)
  \/ \E s \in DOMAIN subscriber : SubscriberConnect(s)
  \/ \E s \in DOMAIN subscriber : SubscriberStart(s)
  \/ \E s \in DOMAIN subscriber : SubscriberRecv(s)
  \/ \E s \in DOMAIN subscriber : HandlerReturn(s)
  \/ \E s \in DOMAIN subscriber : HandlerRaise(s)

Spec == Init /\ [][Next]_vars

\* ---------------------------------------------- codec specification
\* The codec alone: a Publisher and a Subscriber are created with the same
\* topic, a message is drawn, the frame is built as Publisher.send builds it
\* and stripped as Subscriber.run strips it.
CodecSend ==
  /\ codec.pc = "idle"
  /\ codec' = [codec EXCEPT !.pc = "sent",
                            !.frame = Frame(publisher["p1"].topic, codec.msg)]
  /\ UNCHANGED <<brokerVars, pubVars, subVars, histVars>>

CodecRecv ==
  /\ codec.pc = "sent"
  /\ codec' = [codec EXCEPT !.pc = "done",
                            !.out = Payload(codec.frame, subscriber["s1"].msg_start)]
  /\ UNCHANGED <<brokerVars, pubVars, subVars, histVars>>

InitCodec ==
  \E t \in StrsUpTo(MaxStrLen), m \in StrsUpTo(MaxStrLen) :
    /\ codec = [CodecIdle EXCEPT !.msg = m]
    /\ InitSystem("p1" :> t, "s1" :> t)

NextCodec == CodecSend \/ CodecRecv

SpecCodec == InitCodec /\ [][NextCodec]_vars

\* Subscriber.run never ends by itself and zmq.proxy never returns: a frame
\* waiting in a pipe of the running proxy is forwarded, a frame waiting on the
\* socket of a receiving subscriber is received, and a handler comes to an end
\* (it returns, unless it raises).
Fairness ==
  /\ \A p \in Pubs : WF_vars(ProxyForward(p))
  /\ \A s \in Subs : WF_vars(SubscriberRecv(s)) /\ WF_vars(HandlerReturn(s))

SpecLive == Init /\ [][Next]_vars /\ Fairness

\* The same system with the history of each subscriber's socket at the start
\* of run().
NextBuffered ==
  \/ MessageBrokerStart
  \/ \E frontendOk, backendOk \in BOOLEAN : MessageBrokerRun(frontendOk, backendOk)
  \/ \E p \in DOMAIN publisher : ProxyForward(p)
  \/ \E p \in DOMAIN publisher, s \in DOMAIN subscriber : PropagateSubscription(p, s)
  \/ \E lose \in [Pubs -> 0..SndHwm] : BrokerExit(lose)
  \/ MessageBrokerNew
  \/ \E p \in DOMAIN publisher : PublisherConnect(p)
  \/ \E p \in DOMAIN publisher, m \in Msgs : PublisherSend(p, m)
  \/ \E s \in DOMAIN subscriber : SubscriberConnect(s)
  \/ \E s \in DOMAIN subscriber : SubscriberStartLogged(s)
  \/ \E s \in DOMAIN subscriber : SubscriberRecv(s)
  \/ \E s \in DOMAIN subscriber : HandlerReturn(s)
  \/ \E s \in DOMAIN subscriber : HandlerRaise(s)

SpecBuffered == Init /\ [][NextBuffered]_vars /\ Fairness

\* ------------------------------------------------------------- claims
Contains(str, c) == \E i \in 1..Len(str) : str[i] = c

IsPrefix(a, b) == Len(a) <= Len(b) /\ SubSeq(b, 1, Len(a)) = a

\* The sends whose frame is waiting in a pipe, is waiting on s's socket, has
\* been passed to s's handler.
InPipe(p) == {pubOut[p][i].id : i \in 1..Len(pubOut[p])}

OnSocket(s) == {subIn[s][i].id : i \in 1..Len(subIn[s])}

HandledBy(s) == {handled[s][i].id : i \in 1..Len(handled[s])}

Received(s) == OnSocket(s) \cup HandledBy(s)

TopicOfSend(id) == publisher[sent[id].pub].topic

\* C1: for a topic without the separator and any message, the frame built by
\* Publisher.send, stripped of its first len(topic)+1 characters as
\* Subscriber.run strips it, is the message.
C1_RoundTrip ==
  (codec.pc = "done" /\ ~Contains(publisher["p1"].topic, Sep))
    => codec.out = codec.msg

\* C1's case: a topic with a two-byte character and a message that holds the
\* separator have made the round trip.
C1_Witness ==
  /\ codec.pc = "done"
  /\ ~Contains(publisher["p1"].topic, Sep)
  /\ Contains(publisher["p1"].topic, 233)
  /\ Contains(codec.msg, Sep)
  /\ codec.out = codec.msg

\* C2: a subscriber never receives, and its handler is never invoked for, a
\* frame of a publisher whose topic and the subscriber's filter are disjoint
\* (neither is a prefix of the other).
C2_Isolation ==
  \A s \in DOMAIN subscriber : \A id \in Received(s) :
    \/ IsPrefix(subscriber[s].filter, TopicOfSend(id))
    \/ IsPrefix(TopicOfSend(id), subscriber[s].filter)

\* C2's case: a publisher with a disjoint topic has sent while the subscriber
\* was connected, and the subscriber's handler has run for another publisher.
C2_Witness ==
  \E s \in subConn : \E id \in 1..Len(sent) :
    /\ ~IsPrefix(subscriber[s].filter, TopicOfSend(id))
    /\ ~IsPrefix(TopicOfSend(id), subscriber[s].filter)
    /\ HandledBy(s) # {}

\* C3: while publisher, broker and subscriber are connected and the transport
\* drops nothing, a subscriber is delivered every frame whose topic is, or
\* merely starts with, its filter: the publisher's socket queues such a frame
\* for the broker, and a frame queued for the running broker reaches the
\* subscriber's socket.
C3_PrefixFiltering ==
  /\ [][\A p \in pubConn : \A s \in pubKnows[p] :
          ( /\ Len(sent') > Len(sent)
            /\ sent'[Len(sent')].pub = p
            /\ IsPrefix(subscriber[s].filter, publisher[p].topic)
            /\ Len(pubOut[p]) < SndHwm )
          => Len(sent') \in InPipe(p)']_vars
  /\ \A p \in Pubs : \A s \in Subs : \A id \in 1..MaxSends :
       ( /\ bpc = "proxying" /\ p \in pubConn /\ s \in subConn
         /\ id \in InPipe(p)
         /\ IsPrefix(subscriber[s].filter, publisher[p].topic) )
       ~> (id \in Received(s) \/ id \in lostFor[s] \/ bpc # "proxying")

\* C3's case: a subscriber has been delivered a frame whose topic is its
\* filter and a frame whose topic is longer than its filter.
C3_Witness ==
  \E s \in DOMAIN subscriber : \E i, j \in Received(s) :
    /\ TopicOfSend(i) = subscriber[s].filter
    /\ TopicOfSend(j) # subscriber[s].filter
    /\ IsPrefix(subscriber[s].filter, TopicOfSend(j))
    /\ lostFor[s] = {}

\* C4: a frame queued for the running broker is eventually passed to the
\* handler of every connected, running subscriber registered with the frame's
\* topic, unless the transport drops it, the broker stops or that subscriber's
\* handler raises.
C4_FanOut ==
  \A p \in Pubs : \A s \in Subs : \A id \in 1..MaxSends :
    ( /\ bpc = "proxying" /\ p \in pubConn /\ s \in subConn
      /\ id \in InPipe(p)
      /\ spc[s] \in {"receiving", "handling"}
      /\ subscriber[s].filter = publisher[p].topic )
    ~> ( \/ id \in HandledBy(s) \/ id \in lostFor[s]
         \/ bpc # "proxying" \/ spc[s] = "dead" )

\* C4's case: two subscribers registered with the same topic have each handled
\* every frame sent, and nothing was dropped.
C4_Witness ==
  /\ Len(sent) = MaxSends
  /\ Cardinality(DOMAIN subscriber) = 2
  /\ \A s \in DOMAIN subscriber :
       /\ subscriber[s].filter = publisher["p1"].topic
       /\ HandledBy(s) = 1..MaxSends

\* The messages p has sent, and the payloads s's handler was passed for frames
\* of p, both in order.
RECURSIVE MessagesOf(_, _)
MessagesOf(p, log) ==
  IF log = <<>> THEN <<>>
  ELSE (IF Head(log).pub = p THEN <<Head(log).msg>> ELSE <<>>) \o MessagesOf(p, Tail(log))

RECURSIVE PayloadsFrom(_, _)
PayloadsFrom(p, calls) ==
  IF calls = <<>> THEN <<>>
  ELSE (IF sent[Head(calls).id].pub = p THEN <<Head(calls).payload>> ELSE <<>>)
       \o PayloadsFrom(p, Tail(calls))

RECURSIVE IsSubsequence(_, _)
IsSubsequence(a, b) ==
  IF a = <<>> THEN TRUE
  ELSE IF b = <<>> THEN FALSE
  ELSE IF Head(a) = Head(b) THEN IsSubsequence(Tail(a), Tail(b))
  ELSE IsSubsequence(a, Tail(b))

C6_OutageMessagesNeverDelivered ==
  \A s \in DOMAIN subscriber : \A id \in Received(s) : ~sent[id].down

\* C7: Publisher.send is enabled in every state (broker up or down, pipe full,
\* handler stalled), ends by returning, and leaves the publisher's fields as
\* they were.
C7_SendNeverBlocks ==
  /\ [](\A p \in DOMAIN publisher : \A m \in Msgs :
          Len(sent) < MaxSends => ENABLED PublisherSend(p, m))
  /\ [][Len(sent') > Len(sent) =>
          /\ publisher' = publisher
          /\ sent'[Len(sent')].outcome = "returned"]_vars

\* C7's case: sends have returned while the broker was down and while the
\* pipe was full (a frame was dropped), and a handler is stalled.
C7_Witness ==
  /\ \E id \in 1..Len(sent) : sent[id].down
  /\ \E p \in DOMAIN publisher : Len(pubOut[p]) = SndHwm
  /\ \E s \in DOMAIN subscriber : spc[s] = "handling"
  /\ Len(sent) = MaxSends

\* C8 as claimed: a frame that has reached a subscriber was published while a
\* subscriber with a matching filter was connected to the broker.
C8_NoQueueForAbsentSubscribers ==
  \A s \in DOMAIN subscriber : \A id \in Received(s) : sent[id].heard

\* C9 as claimed: when a bind has failed, start() has reported an error to its
\* caller.
C9_BindFailureSurfaced == bpc = "failed" => startResult = "raised"

\* C10: every frame on a subscriber's socket is, byte for byte, a frame some
\* publisher has sent.
C10_RelayVerbatim ==
  \A s \in DOMAIN subscriber : \A i \in 1..Len(subIn[s]) :
    \E id \in 1..Len(sent) : sent[id].frame = subIn[s][i].frame

\* C10's case: the proxy has relayed a frame to a subscriber's socket.
C10_Witness ==
  \E s \in DOMAIN subscriber : Len(subIn[s]) = RcvHwm

\* ------------------------------------------------- subscriber thread
\* s has been started and its loop has not ended.
Running(s) == spc[s] \in {"receiving", "handling"}

\* The last invocation of s's handler, when there is one.
LastCall(s) == handled[s][Len(handled[s])]

\* C11: a frame leaves a subscriber's socket exactly when its handler is invoked
\* with it, once; at most one invocation of a subscriber's handler is in
\* progress, and while it is, that subscriber takes no frame from its socket and
\* starts no other invocation.
C11_SynchronousDispatch ==
  /\ [](\A s \in DOMAIN subscriber :
          /\ \A i \in 1..Len(handled[s]) :
               handled[s][i].outcome = "running"
                 => i = Len(handled[s]) /\ spc[s] = "handling"
          /\ spc[s] = "handling"
               => handled[s] # <<>> /\ LastCall(s).outcome = "running"
          /\ \A i, j \in 1..Len(handled[s]) :
               i # j => handled[s][i].id # handled[s][j].id)
  /\ [][\A s \in DOMAIN subscriber :
          /\ Len(subIn'[s]) < Len(subIn[s]) <=> Len(handled'[s]) > Len(handled[s])
          /\ Len(handled'[s]) > Len(handled[s])
               => /\ spc[s] = "receiving"
                  /\ spc'[s] = "handling"
                  /\ subIn'[s] = Tail(subIn[s])
                  /\ Len(handled'[s]) = Len(handled[s]) + 1
                  /\ SubSeq(handled'[s], 1, Len(handled[s])) = handled[s]
                  /\ handled'[s][Len(handled'[s])].id = Head(subIn[s]).id
          /\ spc[s] = "handling"
               => /\ Len(handled'[s]) = Len(handled[s])
                  /\ Len(subIn'[s]) >= Len(subIn[s])]_vars

\* C11's case: a handler invocation is in progress and a later frame waits on
\* the same subscriber's socket.
C11_Witness ==
  \E s \in DOMAIN subscriber :
    /\ spc[s] = "handling"
    /\ LastCall(s).outcome = "running"
    /\ subIn[s] # <<>>

\* C12: an invocation that raised is the last one of its subscriber, whose loop
\* has ended for good; publishers can still send, the proxy can still forward,
\* and every other subscriber can still receive and finish its invocations.
C12_HandlerFaultEndsSubscription ==
  /\ [](\A s \in DOMAIN subscriber :
          /\ \A i \in 1..Len(handled[s]) :
               handled[s][i].outcome = "raised"
                 => i = Len(handled[s]) /\ spc[s] = "dead"
          /\ spc[s] = "dead"
               => /\ \A p \in DOMAIN publisher, m \in Msgs :
                       Len(sent) < MaxSends => ENABLED PublisherSend(p, m)
                  /\ \A p \in DOMAIN publisher :
                       (bpc = "proxying" /\ p \in pubConn /\ pubOut[p] # <<>>)
                         => ENABLED ProxyForward(p)
                  /\ \A o \in DOMAIN subscriber \ {s} :
                       /\ (spc[o] = "receiving" /\ subIn[o] # <<>>)
                            => ENABLED SubscriberRecv(o)
                       /\ spc[o] = "handling" => ENABLED HandlerReturn(o))
  /\ [][\A s \in DOMAIN subscriber :
          spc[s] = "dead" => spc'[s] = "dead" /\ handled'[s] = handled[s]]_vars

\* C12's case: a subscriber's handler raised on the first frame; the second
\* frame sits on its socket and has been dispatched by the other subscriber.
C12_Witness ==
  \E s \in DOMAIN subscriber, o \in DOMAIN subscriber :
    /\ s # o
    /\ spc[s] = "dead"
    /\ LastCall(s).outcome = "raised"
    /\ HandledBy(s) = {1}
    /\ 2 \in OnSocket(s)
    /\ 2 \in HandledBy(o)

C14_NoDispatchBeforeRun ==
  /\ [](\A s \in DOMAIN subscriber : spc[s] = "created" => handled[s] = <<>>)
  /\ [][\A s \in DOMAIN subscriber :
          spc[s] = "created"
            => handled'[s] = <<>> /\ Len(subIn'[s]) >= Len(subIn[s])]_vars

\* C14's case: a matching frame has reached the socket of a subscriber that was
\* constructed and not started.
C14_Witness ==
  \E s \in DOMAIN subscriber :
    /\ spc[s] = "created"
    /\ handled[s] = <<>>
    /\ \E i \in 1..Len(subIn[s]) : Matches(FilterBytes(s), subIn[s][i].frame)

\* C15: the strip offset of every subscriber is the length of its filter plus
\* one, its handler and arguments are the ones given at construction, and no
\* step, receive and dispatch included, changes a subscriber's filter, offset,
\* handler or arguments.
C15_SubscriptionStateFixed ==
  /\ [](\A s \in DOMAIN subscriber :
          /\ subscriber[s].msg_start = Len(subscriber[s].filter) + 1
          /\ subscriber[s].handler = s
          /\ subscriber[s].args = <<>>)
  /\ [][subscriber' = subscriber]_vars

\* C15's case: a subscriber has received and dispatched two frames.
C15_Witness ==
  \E s \in DOMAIN subscriber :
    /\ Len(handled[s]) = 2
    /\ handled[s][2].outcome = "returned"
    /\ subscriber[s].msg_start = Len(subscriber[s].filter) + 1

\* The rest of a topic after the filter it starts with.
Suffix(filter, topic) == SubSeq(topic, Len(filter) + 1, Len(topic))

\* The handler's invocation i of s was for a frame whose topic is the filter of
\* s followed by a non-empty suffix.
OverMatched(s, i) ==
  LET topic == TopicOfSend(handled[s][i].id)
  IN IsPrefix(subscriber[s].filter, topic) /\ Len(topic) > Len(subscriber[s].filter)

\* C16: for a frame whose topic is the filter followed by a non-empty suffix S,
\* the handler gets S without its first character, then '!', then the message
\* (the frame minus its first len(filter) + 1 characters), which is not the
\* message; the empty filter matches every frame sent.
C16_OverMatchedPayload ==
  \A s \in DOMAIN subscriber :
    /\ \A i \in 1..Len(handled[s]) :
         LET id == handled[s][i].id
             S == Suffix(subscriber[s].filter, TopicOfSend(id))
             M == sent[id].msg
         IN OverMatched(s, i)
              => /\ handled[s][i].payload = Tail(S) \o <<Sep>> \o M
                 /\ handled[s][i].payload =
                      Slice(Format(TopicOfSend(id), M), Len(subscriber[s].filter) + 1)
                 /\ handled[s][i].payload # M
    /\ subscriber[s].filter = <<>>
         => \A id \in 1..Len(sent) : Matches(FilterBytes(s), sent[id].frame)

\* C16's case: a handler has been invoked for a frame whose topic is longer
\* than the subscriber's filter.
C16_Witness ==
  \E s \in DOMAIN subscriber : \E i \in 1..Len(handled[s]) :
    /\ OverMatched(s, i)
    /\ handled[s][i].payload # sent[handled[s][i].id].msg

\* For filters, topics and messages up to MaxStrLen characters: a filter without
\* the separator matches a frame only if the frame's topic starts with it.
FilterNeedsTopic ==
  \A F \in StrsUpTo(MaxStrLen), T \in StrsUpTo(MaxStrLen), m \in StrsUpTo(MaxStrLen) :
    (~Contains(F, Sep) /\ Matches(Utf8Encode(F), Frame(T, m))) => IsPrefix(F, T)

\* C17: a filter without the separator matches no frame of a topic that does
\* not start with it, whatever the message, and every frame that reached a
\* subscriber with such a filter was sent by a publisher whose topic starts
\* with the filter. (The filter "a!b" does match topic "a" with message "b".)
C17_NoCrossTopicMatch ==
  /\ FilterNeedsTopic
  /\ Matches(Utf8Encode(<<97, Sep, 98>>), Frame(<<97>>, <<98>>))
  /\ \A s \in DOMAIN subscriber :
       ~Contains(subscriber[s].filter, Sep)
         => \A id \in Received(s) : IsPrefix(subscriber[s].filter, TopicOfSend(id))

\* C17's case: a connected publisher whose topic is shorter than the filter of a
\* connected subscriber has sent the message that completes the filter's text,
\* the publisher's pipe is empty, and nothing has reached the subscriber.
C17_Witness ==
  \E s \in subConn, p \in pubConn :
    /\ ~Contains(subscriber[s].filter, Sep)
    /\ Len(publisher[p].topic) < Len(subscriber[s].filter)
    /\ s \in pubKnows[p]
    /\ pubOut[p] = <<>>
    /\ \E id \in 1..Len(sent) :
         /\ sent[id].pub = p
         /\ publisher[p].topic \o sent[id].msg = subscriber[s].filter
    /\ Received(s) = {}

\* C18: a frame on the socket of a subscriber that was constructed and not
\* started stays there, behind the frames that arrived before it; starting the
\* subscriber leaves its socket as it is; the frames that were waiting when
\* run() began are the first ones passed to the handler, in socket order, and
\* all of them are passed unless an invocation raises before.
C18_BufferedBeforeRun ==
  /\ [][\A s \in DOMAIN subscriber :
          spc[s] = "created" => IsPrefix(subIn[s], subIn'[s])]_vars
  /\ [](\A s \in DOMAIN subscriber :
          LET done == IF Len(handled[s]) < Len(backlog[s])
                      THEN Len(handled[s]) ELSE Len(backlog[s])
          IN /\ \A i \in 1..done : handled[s][i].id = backlog[s][i]
             /\ \A i \in 1..(Len(backlog[s]) - done) :
                  /\ i <= Len(subIn[s])
                  /\ subIn[s][i].id = backlog[s][done + i])
  /\ \A s \in Subs, n \in 1..RcvHwm :
       (Len(backlog[s]) = n) ~> (Len(handled[s]) >= n \/ spc[s] = "dead")

\* C18's case: two frames were waiting on a subscriber's socket when run()
\* began, and both have been passed to the handler, in that order.
C18_Witness ==
  \E s \in DOMAIN subscriber :
    /\ Len(backlog[s]) = 2
    /\ Len(handled[s]) = 2
    /\ \A i \in 1..2 : handled[s][i].id = backlog[s][i]

====
